---- MODULE Spec2Model ----
(***************************************************************************)
(* Memory Scramble board (src/src/board.ts): the Board class (constructor, *)
(* checkRep, flip, look, map) and the exported async commands look, flip   *)
(* and map that a server calls once per request.                           *)
(*                                                                         *)
(* JavaScript runs each synchronous stretch of code to completion, so the  *)
(* steps of the model are: the synchronous Board.look, the two halves of   *)
(* the synchronous Board.flip (lines 56-71 and 73-117; `cur` is the        *)
(* position between them), and the stretches of the async command map      *)
(* between two `await f(...)` (line 240).                                  *)
(*                                                                         *)
(* Rows, columns and cells are numbered from 1 here (the code's r, c are   *)
(* this model's r - 1, c - 1); cell k is the k-th cell in row-major order. *)
(***************************************************************************)
EXTENDS Integers, Sequences, FiniteSets, TLC

\* ------------------------------------------------------------------ bounds
MaxCells == 3          \* boards have rows * cols <= MaxCells cells
MaxMaps  == 1          \* map commands that may be in flight at once

Players    == {"p1", "p2"}
CardValues == {"A", "B"}          \* values a caller supplies
Empty      == ""                  \* the placeholder of line 36
Undefined  == "<undefined>"       \* an absent controlledBy
Null       == "<null>"            \* PublicCard.value of a hidden card
Fns        == {"swap"}            \* the transforms f handed to map
NoFlip     == [player |-> Undefined, r |-> 0, c |-> 0]

VARIABLES rows, cols, board, cur, maps, nCards, last
vars == <<rows, cols, board, cur, maps, nCards, last>>

\* ------------------------------------------------------------- the cards
FaceDownCard(v) == [value |-> v, state |-> "face-down", controlledBy |-> Undefined]

Reveal(card, player) == [card EXCEPT !.state = "revealed", !.controlledBy = player]

\* SetMatched without line 97: the controller stays
SetMatchedKeepsController(card) == [card EXCEPT !.state = "matched"]

SetMatched(card) == [card EXCEPT !.state = "matched", !.controlledBy = Undefined]

SetFaceDown(card) == [card EXCEPT !.state = "face-down", !.controlledBy = Undefined]

\* f(card) of line 240, for the transforms of Fns: swap exchanges the two card
\* values and leaves every other string alone
Apply(f, v) ==
  IF f = "swap"
    THEN (IF v = "A" THEN "B" ELSE IF v = "B" THEN "A" ELSE v)
    ELSE v

\* ------------------------------------------------------------ the grid
RowOf(k, nc) == ((k - 1) \div nc) + 1
ColOf(k, nc) == ((k - 1) % nc) + 1

HasRow(b, r)     == r \in 1..Len(b)
HasCard(b, r, c) == HasRow(b, r) /\ c \in 1..Len(b[r])

\* shuffled[idx++] || '' : a missing or empty entry becomes the placeholder
ValueAt(shuffled, k) ==
  IF k \in 1..Len(shuffled) /\ shuffled[k] # Empty THEN shuffled[k] ELSE Empty

NewBoard(nr, nc, shuffled) ==
  [r \in 1..nr |-> [c \in 1..nc |-> FaceDownCard(ValueAt(shuffled, (r - 1) * nc + c))]]

CheckRep(b, nr, nc) ==
  /\ Len(b) = nr
  /\ \A r \in 1..Len(b) : Len(b[r]) = nc

\* a shuffle that draws every position afresh, with repeats
ShufflesWithRepeats(cards) ==
  { [i \in 1..Len(cards) |-> cards[p[i]]] :
      p \in [1..Len(cards) -> 1..Len(cards)] }

\* the orders Array.prototype.sort may leave the copy in: its permutations
Shuffles(cards) ==
  { [i \in 1..Len(cards) |-> cards[p[i]]] :
      p \in { q \in [1..Len(cards) -> 1..Len(cards)] :
                \A i, j \in 1..Len(cards) : q[i] = q[j] => i = j } }

\* ------------------------------------------------------------ the views
\* LookCard without the `controlledBy === player` test of line 127
LookCardAnyHolder(card, player) ==
  IF card.state = "matched"
    THEN [value |-> card.value, state |-> "matched", controlledBy |-> Undefined]
  ELSE IF card.state = "revealed"
    THEN [value |-> card.value, state |-> "revealed", controlledBy |-> player]
  ELSE [value |-> Null, state |-> "face-down", controlledBy |-> Undefined]

\* LookCard that hides the state of another player's card but not its value
LookCardLeaksValue(card, player) ==
  IF card.state = "matched"
    THEN [value |-> card.value, state |-> "matched", controlledBy |-> Undefined]
  ELSE IF card.state = "revealed" /\ card.controlledBy = player
    THEN [value |-> card.value, state |-> "revealed", controlledBy |-> player]
  ELSE [value |-> IF card.state = "revealed" THEN card.value ELSE Null,
        state |-> "face-down", controlledBy |-> Undefined]

LookCard(card, player) ==
  IF card.state = "matched"
    THEN [value |-> card.value, state |-> "matched", controlledBy |-> Undefined]
  ELSE IF card.state = "revealed" /\ card.controlledBy = player
    THEN [value |-> card.value, state |-> "revealed", controlledBy |-> player]
  ELSE [value |-> Null, state |-> "face-down", controlledBy |-> Undefined]

Look(b, player) ==
  [r \in 1..Len(b) |-> [c \in 1..Len(b[r]) |-> LookCard(b[r][c], player)]]

\* MapCard that shows matched cards only
MapCardMatchedOnly(card) ==
  IF card.state = "matched"
    THEN [value |-> card.value, state |-> card.state, controlledBy |-> Undefined]
    ELSE [value |-> Null, state |-> "face-down", controlledBy |-> Undefined]

MapCard(card) ==
  IF card.state = "matched" \/ card.state = "revealed"
    THEN [value |-> card.value, state |-> card.state, controlledBy |-> Undefined]
    ELSE [value |-> Null, state |-> "face-down", controlledBy |-> Undefined]

BoardMap(b) ==
  [r \in 1..Len(b) |-> [c \in 1..Len(b[r]) |-> MapCard(b[r][c])]]

\* --------------------------------------------------- the record of a step
Step(op, status, success, message, view) ==
  [op |-> op, status |-> status, success |-> success, message |-> message,
   view |-> view, cards |-> <<>>, alone |-> FALSE]

\* ---------------------------------------------------------------- Init
Shapes == { d \in (1..MaxCells) \X (1..MaxCells) : d[1] * d[2] <= MaxCells }

CardInputs(n) == UNION { [1..m -> CardValues] : m \in 0..n }

IdleMap == [pc |-> "idle", player |-> Undefined, f |-> "", k |-> 0, arg |-> Empty,
            written |-> {}, before |-> <<>>, alone |-> FALSE]

\* History: `alone` of a map in flight says that no step of another operation
\* has run since that map was called; every such step clears it.
Disturbed(ms) ==
  [m \in DOMAIN ms |-> IF ms[m].pc = "await" THEN [ms[m] EXCEPT !.alone = FALSE]
                       ELSE ms[m]]

Init ==
  \E d \in Shapes :
    \E cards \in CardInputs(d[1] * d[2]) :
      \E shuffled \in Shuffles(cards) :
        /\ rows = d[1]
        /\ cols = d[2]
        /\ board = NewBoard(d[1], d[2], shuffled)
        /\ CheckRep(board, rows, cols)
        /\ cur = NoFlip
        /\ maps = [m \in 1..MaxMaps |-> IdleMap]
        /\ nCards = Len(cards)
        /\ last = [Step("new", "returned", TRUE, "", <<>>)
                     EXCEPT !.cards = cards]

\* --------------------------------------------------------------- flip
\* Idle if Board.flip gave up control between its two halves
IdleAlways == TRUE

\* No synchronous code is in the middle of running: Board.flip holds no await,
\* so nothing else runs between its first and its second half.
Idle == cur = NoFlip

\* RevealedBy without the `controlledBy === player` test of line 80
RevealedByAnyone(b, player) ==
  SelectSeq([k \in 1..(rows * cols) |-> k],
            LAMBDA k : /\ HasCard(b, RowOf(k, cols), ColOf(k, cols))
                       /\ b[RowOf(k, cols)][ColOf(k, cols)].state = "revealed")

\* lines 73-84: the player's revealed cards, in scan order
RevealedBy(b, player) ==
  SelectSeq([k \in 1..(rows * cols) |-> k],
            LAMBDA k : /\ HasCard(b, RowOf(k, cols), ColOf(k, cols))
                       /\ b[RowOf(k, cols)][ColOf(k, cols)].state = "revealed"
                       /\ b[RowOf(k, cols)][ColOf(k, cols)].controlledBy = player)

InSeq(s, k) == \E i \in 1..Len(s) : s[i] = k

\* MatchAll that marks copies of the cards and leaves the grid as it was
MatchAllNothing(b, revealed) == b

\* lines 91-98: every card of `revealed` becomes matched
MatchAll(b, revealed) ==
  [r \in 1..Len(b) |-> [c \in 1..Len(b[r]) |->
     IF InSeq(revealed, (r - 1) * cols + c) THEN SetMatched(b[r][c]) ELSE b[r][c]]]

\* ResetAll that resets copies of the cards and leaves the grid as it was
ResetAllNothing(b, revealed) == b

\* ResetAll that rebuilds the grid one row short
ResetAllTruncated(b, revealed) ==
  [r \in 1..(Len(b) - 1) |-> [c \in 1..Len(b[r]) |->
     IF InSeq(revealed, (r - 1) * cols + c) THEN SetFaceDown(b[r][c]) ELSE b[r][c]]]

\* lines 103-110: every card of `revealed` goes back face down
ResetAll(b, revealed) ==
  [r \in 1..Len(b) |-> [c \in 1..Len(b[r]) |->
     IF InSeq(revealed, (r - 1) * cols + c) THEN SetFaceDown(b[r][c]) ELSE b[r][c]]]

\* Returned with checkRep comparing the rows with cols and the columns with rows
ReturnedSwapped(op, player, success, message, b) ==
  IF CheckRep(b, cols, rows)
    THEN Step(op, "returned", success, message, Look(b, player))
    ELSE Step(op, "threw", FALSE, "Invalid grid", <<>>)

\* lines 99-100, 111-112, 116-117: checkRep, then the result with the caller's view
Returned(op, player, success, message, b) ==
  IF CheckRep(b, rows, cols)
    THEN Step(op, "returned", success, message, Look(b, player))
    ELSE Step(op, "threw", FALSE, "Invalid grid", <<>>)

\* Rejection with one message for both axes
RejectionOneMessage(b, row, col) ==
  IF ~HasRow(b, row) THEN "Row out of bounds"
  ELSE IF ~HasCard(b, row, col) THEN "Row out of bounds"
  ELSE IF b[row][col].state # "face-down" THEN "Cannot flip"
  ELSE ""

\* Rejection that refuses matched cards only
RejectionMatchedOnly(b, row, col) ==
  IF ~HasRow(b, row) THEN "Row out of bounds"
  ELSE IF ~HasCard(b, row, col) THEN "Column out of bounds"
  ELSE IF b[row][col].state = "matched" THEN "Cannot flip"
  ELSE ""

\* lines 59-69: the message of the rejection, "" when the card can be flipped
Rejection(b, row, col) ==
  IF ~HasRow(b, row) THEN "Row out of bounds"
  ELSE IF ~HasCard(b, row, col) THEN "Column out of bounds"
  ELSE IF b[row][col].state # "face-down" THEN "Cannot flip"
  ELSE ""

\* lines 56-71: the board, the position in flip and the step record that the
\* first half of flip(row, col, player) leaves
FlipStart(b, player, row, col) ==
  IF Rejection(b, row, col) # ""
    THEN [board |-> b, cur |-> NoFlip,
          last |-> Step("flip", "returned", FALSE, Rejection(b, row, col),
                        Look(b, player))]
    ELSE [board |-> [b EXCEPT ![row][col] = Reveal(@, player)],
          cur |-> [player |-> player, r |-> row, c |-> col],
          last |-> Step("flip", "running", FALSE, "", <<>>)]

FlipCall(player, row, col) ==
  /\ Idle
  /\ LET res == FlipStart(board, player, row, col)
     IN  /\ board' = res.board
         /\ cur' = res.cur
         /\ last' = res.last
  /\ maps' = Disturbed(maps)
  /\ UNCHANGED <<rows, cols, nCards>>

\* SameValue comparing the cards' states, which are both 'revealed'
SameValueOfState(card1, card2) == card1.state = card2.state

\* line 89
SameValue(card1, card2) == card1.value = card2.value

\* lines 73-117: the board and the step record that the second half of the
\* flip fl leaves
FlipFinish(b, fl) ==
  LET revealed == RevealedBy(b, fl.player)
      k1 == revealed[1]
      k2 == revealed[2]
      card1 == b[RowOf(k1, cols)][ColOf(k1, cols)]
      card2 == b[RowOf(k2, cols)][ColOf(k2, cols)]
  IN  IF Len(revealed) = 2
        THEN IF SameValue(card1, card2)
               THEN [board |-> MatchAll(b, revealed),
                     last |-> Returned("flip", fl.player, TRUE, "Match!",
                                       MatchAll(b, revealed))]
               ELSE [board |-> ResetAll(b, revealed),
                     last |-> Returned("flip", fl.player, TRUE, "Not a match.",
                                       ResetAll(b, revealed))]
        ELSE [board |-> b,
              last |-> Returned("flip", fl.player, TRUE, "Card flipped", b)]

FlipResolve ==
  /\ cur # NoFlip
  /\ LET res == FlipFinish(board, cur)
     IN  /\ board' = res.board
         /\ last' = res.last
  /\ cur' = NoFlip
  /\ maps' = Disturbed(maps)
  /\ UNCHANGED <<rows, cols, nCards>>

\* --------------------------------------------------------------- look
\* a look that hides the other players' cards by turning them face down
LookCallHides(player) ==
  /\ Idle
  /\ board' = [r \in 1..Len(board) |-> [c \in 1..Len(board[r]) |->
                 IF board[r][c].state = "revealed" /\ board[r][c].controlledBy # player
                   THEN SetFaceDown(board[r][c]) ELSE board[r][c]]]
  /\ last' = Step("look", "returned", TRUE, "", Look(board', player))
  /\ maps' = Disturbed(maps)
  /\ UNCHANGED <<rows, cols, cur, nCards>>

\* lines 208-210 and 120-133
LookCall(player) ==
  /\ Idle
  /\ last' = Step("look", "returned", TRUE, "", Look(board, player))
  /\ maps' = Disturbed(maps)
  /\ UNCHANGED <<rows, cols, board, cur, nCards>>

\* Board.map(), as watch() hands it to its callback
BoardMapCall ==
  /\ Idle
  /\ last' = Step("boardmap", "returned", TRUE, "", BoardMap(board))
  /\ maps' = Disturbed(maps)
  /\ UNCHANGED <<rows, cols, board, cur, nCards>>

\* ---------------------------------------------------------------- map
RECURSIVE NextFaceDown(_, _)
\* NextUnmatched that stops at face-down cards only
NextFaceDown(b, k) ==
  IF k > rows * cols THEN 0
  ELSE IF HasCard(b, RowOf(k, cols), ColOf(k, cols))
          /\ b[RowOf(k, cols)][ColOf(k, cols)].state = "face-down"
    THEN k
  ELSE NextFaceDown(b, k + 1)

RECURSIVE NextUnmatched(_, _)
\* lines 234-239 from cell k on: the first cell that is there and not matched,
\* 0 when the loops end
NextUnmatched(b, k) ==
  IF k > rows * cols THEN 0
  ELSE IF HasCard(b, RowOf(k, cols), ColOf(k, cols))
          /\ b[RowOf(k, cols)][ColOf(k, cols)].state # "matched"
    THEN k
  ELSE NextUnmatched(b, k + 1)

ValuesOf(b) == [r \in 1..Len(b) |-> [c \in 1..Len(b[r]) |-> b[r][c].value]]

\* the stretch of map from cell `from` to the next await, or to its return
MapRun(m, player, f, b, from, written, before, alone) ==
  LET k == NextUnmatched(b, from)
  IN  IF k = 0
        THEN /\ maps' = [Disturbed(maps) EXCEPT ![m] = IdleMap]
             /\ last' = [Step("map", "returned", TRUE, "", Look(b, player))
                           EXCEPT !.alone = alone]
        ELSE /\ maps' = [Disturbed(maps) EXCEPT ![m] =
                           [pc |-> "await", player |-> player, f |-> f, k |-> k,
                            arg |-> b[RowOf(k, cols)][ColOf(k, cols)].value,
                            written |-> written, before |-> before,
                            alone |-> alone]]
             /\ last' = Step("map", "running", FALSE, "", <<>>)

\* lines 231-240: the call, up to the first await
MapCall(m, player, f) ==
  /\ Idle
  /\ maps[m].pc = "idle"
  /\ MapRun(m, player, f, board, 1, {}, ValuesOf(board), TRUE)
  /\ UNCHANGED <<rows, cols, board, cur, nCards>>

\* line 240 onwards: f's promise settles, its value is stored in the card read
\* before the await, and the loops go on
MapResume(m) ==
  /\ Idle
  /\ maps[m].pc = "await"
  /\ LET s == maps[m]
         r == RowOf(s.k, cols)
         c == ColOf(s.k, cols)
     IN  /\ board' = [board EXCEPT ![r][c].value = Apply(s.f, s.arg)]
         /\ MapRun(m, s.player, s.f, board', s.k + 1, s.written \cup {s.k},
                   s.before, s.alone)
  /\ UNCHANGED <<rows, cols, cur, nCards>>

\* ---------------------------------------------------------------- Next
Next ==
  \/ \E p \in Players : \E row \in 0..(rows + 1) : \E col \in 0..(cols + 1) :
       FlipCall(p, row, col)
  \/ FlipResolve
  \/ \E p \in Players : LookCall(p)
  \/ BoardMapCall
  \/ \E m \in 1..MaxMaps : \E p \in Players : \E f \in Fns : MapCall(m, p, f)
  \/ \E m \in 1..MaxMaps : MapResume(m)

Spec == Init /\ [][Next]_vars

\* ===================================================================
\* Properties
\* ===================================================================
Cells == { <<r, c>> : r \in 1..rows, c \in 1..cols }
CardAt(b, cell) == b[cell[1]][cell[2]]
InBounds(row, col) == row \in 1..rows /\ col \in 1..cols
Args == Players \X (0..(rows + 1)) \X (0..(cols + 1))
Hidden == [value |-> Null, state |-> "face-down", controlledBy |-> Undefined]
MapInFlight(m) == maps[m].pc = "await"

\* C1: in every reachable state, the states between the two halves of a flip
\* and between the awaits of a map included, a card has a controller exactly
\* when its state is 'revealed'; face-down and matched cards have none.
C1_ControllerIffRevealed ==
  \A cell \in Cells :
    (CardAt(board, cell).controlledBy # Undefined)
      <=> (CardAt(board, cell).state = "revealed")

\* a flip has just resolved a match while another card is still held revealed
C1_Witness ==
  /\ last.op = "flip" /\ last.message = "Match!"
  /\ \E cell \in Cells : CardAt(board, cell).state = "matched"
                         /\ CardAt(board, cell).controlledBy = Undefined
  /\ \E cell \in Cells : CardAt(board, cell).state = "revealed"
                         /\ CardAt(board, cell).controlledBy \in Players

\* C2: when the flip of player p has revealed its target Y and p holds exactly
\* one other revealed card X (whatever the other players did since p revealed
\* X), the flip ends with X and Y both matched, no controller, "Match!" if
\* their values are equal, and with both face-down, no controller,
\* "Not a match." if they differ; success is true either way.
C2_TwoCardResolution ==
  [][ cur # NoFlip =>
        LET Y  == <<cur.r, cur.c>>
            Xs == { x \in Cells \ {Y} :
                      /\ CardAt(board, x).state = "revealed"
                      /\ CardAt(board, x).controlledBy = cur.player }
        IN  Cardinality(Xs) = 1 =>
              \A X \in Xs :
                LET end == IF CardAt(board, X).value = CardAt(board, Y).value
                             THEN "matched" ELSE "face-down"
                    msg == IF CardAt(board, X).value = CardAt(board, Y).value
                             THEN "Match!" ELSE "Not a match."
                IN  /\ CardAt(board', X).state = end
                    /\ CardAt(board', Y).state = end
                    /\ CardAt(board', X).controlledBy = Undefined
                    /\ CardAt(board', Y).controlledBy = Undefined
                    /\ CardAt(board', X).value = CardAt(board, X).value
                    /\ CardAt(board', Y).value = CardAt(board, Y).value
                    /\ last'.op = "flip" /\ last'.status = "returned"
                    /\ last'.success = TRUE
                    /\ last'.message = msg
  ]_vars

\* a pair was resolved as a match while the other player held a card revealed
C2_Witness ==
  /\ last.op = "flip" /\ last.status = "returned" /\ last.message = "Match!"
  /\ Cardinality({ cell \in Cells : CardAt(board, cell).state = "matched" }) = 2
  /\ \E cell \in Cells : CardAt(board, cell).state = "revealed"

\* C3: a card revealed by B is reported to every other player A as hidden
\* (null value, 'face-down', no controller) and to B with its value, 'revealed'
\* and controller B; a matched card is reported to every player with its value
\* and state 'matched'.
C3_Visibility ==
  \A cell \in Cells :
    LET card == CardAt(board, cell)
    IN  /\ card.state = "revealed" =>
             \A A \in Players :
               CardAt(Look(board, A), cell) =
                 IF A = card.controlledBy
                   THEN [value |-> card.value, state |-> "revealed",
                         controlledBy |-> A]
                   ELSE Hidden
        /\ card.state = "matched" =>
             \A A \in Players :
               CardAt(Look(board, A), cell) =
                 [value |-> card.value, state |-> "matched",
                  controlledBy |-> Undefined]

\* a look has returned on a board with a matched card and a card held by p2
C3_Witness ==
  /\ last.op = "look"
  /\ \E cell \in Cells : CardAt(board, cell).state = "matched"
  /\ \E cell \in Cells : /\ CardAt(board, cell).state = "revealed"
                         /\ CardAt(board, cell).controlledBy = "p2"
                         /\ CardAt(last.view, cell) = Hidden

\* C4: once a flip has revealed its target, the next step on the board is that
\* flip's own scan and resolution: no other flip, look or map step runs in
\* between.
C4_FlipAtomic ==
  [][ cur # NoFlip => FlipResolve ]_vars

\* a flip is between its reveal and its resolution while a map is in flight
\* and the other player holds a card
C4_Witness ==
  /\ cur # NoFlip
  /\ \E m \in 1..MaxMaps : MapInFlight(m)
  /\ \E cell \in Cells : /\ CardAt(board, cell).state = "revealed"
                         /\ CardAt(board, cell).controlledBy # cur.player

\* C5 (as claimed): a map is serialized against flips, so a flip that runs
\* while a map is in flight never answers "Not a match." for two cards whose
\* values were equal when that map began.
C5_MapSerialized ==
  [][ (cur # NoFlip /\ last'.message = "Not a match.") =>
        \A m \in 1..MaxMaps :
          MapInFlight(m) =>
            LET held == { x \in Cells :
                            /\ CardAt(board, x).state = "revealed"
                            /\ CardAt(board, x).controlledBy = cur.player }
            IN  \A x, y \in held :
                  x # y => CardAt(maps[m].before, x) # CardAt(maps[m].before, y)
  ]_vars

\* C6: in every state in which a flip can start, a flip whose row is outside
\* 1..rows or whose column is outside 1..cols returns success = false with
\* "Row out of bounds" when the row is invalid and "Column out of bounds"
\* otherwise, and changes no card.
C6_BoundsRejection ==
  Idle =>
    \A a \in Args :
      ~InBounds(a[2], a[3]) =>
        LET res == FlipStart(board, a[1], a[2], a[3])
        IN  /\ res.last.op = "flip" /\ res.last.status = "returned"
            /\ res.last.success = FALSE
            /\ res.last.message = IF a[2] \notin 1..rows THEN "Row out of bounds"
                                  ELSE "Column out of bounds"
            /\ res.board = board
            /\ res.cur = NoFlip

\* a flip was rejected for its column on a board where play is under way
C6_Witness ==
  /\ last.op = "flip" /\ last.success = FALSE
  /\ last.message = "Column out of bounds"
  /\ \E cell \in Cells : CardAt(board, cell).state = "revealed"

\* C7: in every state in which a flip can start, a flip of an in-bounds card
\* that is revealed (by the caller or by anyone else) or matched returns
\* success = false with "Cannot flip" and changes no card.
C7_ReflipRejection ==
  Idle =>
    \A a \in Args :
      (InBounds(a[2], a[3]) /\ board[a[2]][a[3]].state \in {"revealed", "matched"}) =>
        LET res == FlipStart(board, a[1], a[2], a[3])
        IN  /\ res.last.op = "flip" /\ res.last.status = "returned"
            /\ res.last.success = FALSE
            /\ res.last.message = "Cannot flip"
            /\ res.board = board
            /\ res.cur = NoFlip

\* a flip was rejected with "Cannot flip" while a card is revealed and the
\* view returned shows it to its holder
C7_Witness ==
  /\ last.op = "flip" /\ last.success = FALSE /\ last.message = "Cannot flip"
  /\ \E cell \in Cells : /\ CardAt(board, cell).state = "revealed"
                         /\ CardAt(last.view, cell).state = "revealed"

\* C8 (as claimed): a card that is matched keeps its state, its absent
\* controller and its value in every later step.
C8_MatchedTerminal ==
  [][ \A r \in 1..rows : \A c \in 1..cols :
        board[r][c].state = "matched" => board'[r][c] = board[r][c] ]_vars

\* the cells that line 36 filled with the placeholder: those past the values
PlaceholderCells == { cell \in Cells : (cell[1] - 1) * cols + cell[2] > nCards }

\* C9 (as claimed): the cells that received the placeholder because the
\* supplied values ran out are never two in state 'matched'.

C9_PlaceholdersNeverMatch ==
  Cardinality({ cell \in PlaceholderCells :
                  CardAt(board, cell).state = "matched" }) < 2

\* C10: a flip never raises. In every state in which a flip can start, its
\* first half rejects with success = false exactly when the target is out of
\* bounds or not face-down, and otherwise reveals the target and goes on to
\* the second half; and the second half always returns success = true.
C10_FlipResult ==
  IF Idle
    THEN \A a \in Args :
           LET res == FlipStart(board, a[1], a[2], a[3])
           IN  IF InBounds(a[2], a[3]) /\ board[a[2]][a[3]].state = "face-down"
                 THEN /\ res.cur = [player |-> a[1], r |-> a[2], c |-> a[3]]
                      /\ res.last.status = "running"
                 ELSE /\ res.cur = NoFlip
                      /\ res.last.status = "returned"
                      /\ res.last.success = FALSE
    ELSE LET res == FlipFinish(board, cur)
         IN  /\ res.last.op = "flip"
             /\ res.last.status = "returned"
             /\ res.last.success = TRUE

\* a flip has returned success = true after resolving a mismatch
C10_Witness ==
  /\ last.op = "flip" /\ last.status = "returned" /\ last.success = TRUE
  /\ last.message = "Not a match."

\* C11: a look changes no card (value, state, controller) and returns a view
\* of rows rows of cols cells.
C11_LookPure ==
  [][ last'.op = "look" =>
        /\ board' = board
        /\ last'.status = "returned"
        /\ Len(last'.view) = rows
        /\ \A r \in 1..Len(last'.view) : Len(last'.view[r]) = cols
  ]_vars

\* a look has returned while another player holds a card and a pair is matched
C11_Witness ==
  /\ last.op = "look" /\ last.status = "returned"
  /\ Len(last.view) = rows
  /\ \E cell \in Cells : /\ CardAt(board, cell).state = "revealed"
                         /\ CardAt(last.view, cell) = Hidden
  /\ \E cell \in Cells : CardAt(last.view, cell).state = "matched"

Unseen(card, A) ==
  /\ card.state # "matched"
  /\ ~(card.state = "revealed" /\ card.controlledBy = A)

\* the cards a cell that A is not to see may hold: any value, face down or
\* revealed by another player
UnseenCards(A) ==
  { FaceDownCard(v) : v \in CardValues \cup {Empty} }
    \cup { Reveal(FaceDownCard(v), B) : v \in CardValues \cup {Empty},
                                        B \in Players \ {A} }

\* the boards that agree with b on the matched cards and on the cards revealed
\* by A
SameFor(b, A) ==
  LET U == { cell \in Cells : Unseen(CardAt(b, cell), A) }
  IN  { [r \in 1..Len(b) |-> [c \in 1..Len(b[r]) |->
           IF <<r, c>> \in U THEN g[<<r, c>>] ELSE b[r][c]]] :
        g \in [U -> UnseenCards(A)] }

\* C13: for every player A, look(A) returns the same view on every board that
\* agrees with the current one on the matched cards and on the cards revealed
\* by A, whatever the values of the other cards and whoever else holds them.
C13_LookNonInterference ==
  \A A \in Players : \A b2 \in SameFor(board, A) : Look(b2, A) = Look(board, A)

\* a look has returned on a board where one card is matched and the other
\* player holds a card, which the view reports as hidden
C13_Witness ==
  /\ last.op = "look"
  /\ \E A \in Players :
       /\ last.view = Look(board, A)
       /\ \E cell \in Cells : /\ CardAt(board, cell).state = "revealed"
                              /\ CardAt(board, cell).controlledBy # A
                              /\ CardAt(board, cell).value \in CardValues
       /\ \E cell \in Cells : CardAt(board, cell).state = "matched"
       /\ Cardinality(SameFor(board, A)) > 1

\* the shape of one card
IsCard(card) ==
  /\ DOMAIN card = {"value", "state", "controlledBy"}
  /\ card.state \in {"face-down", "revealed", "matched"}

\* C14: in every reachable state the grid has exactly rows rows of exactly
\* cols cells, each holding one card, and no operation has thrown.
C14_GridShape ==
  /\ CheckRep(board, rows, cols)
  /\ DOMAIN board = 1..rows
  /\ \A r \in 1..rows : /\ DOMAIN board[r] = 1..cols
                        /\ \A c \in 1..cols : IsCard(board[r][c])
  /\ last.status # "threw"

\* a mismatch has been resolved on a board of more than one row
C14_Witness ==
  /\ rows > 1
  /\ last.op = "flip" /\ last.message = "Not a match."
  /\ CheckRep(board, rows, cols)

\* the cells whose card player p holds revealed
HeldBy(p) ==
  { cell \in Cells : /\ CardAt(board, cell).state = "revealed"
                     /\ CardAt(board, cell).controlledBy = p }

\* C15: in every reachable state, the state inside a flip after the target is
\* revealed included, a player holds at most two revealed cards.
C15_AtMostTwoRevealed ==
  \A p \in Players : Cardinality(HeldBy(p)) <= 2

\* inside a flip, after the reveal: the player holds two revealed cards while
\* the other player holds the third
C15_Witness ==
  /\ cur # NoFlip
  /\ Cardinality(HeldBy(cur.player)) = 2
  /\ \E p \in Players \ {cur.player} : Cardinality(HeldBy(p)) = 1

\* how many entries of the sequence s are v, and how many cards of the grid
\* hold v
CountIn(s, v) == Cardinality({ i \in 1..Len(s) : s[i] = v })
CountOnBoard(v) == Cardinality({ cell \in Cells : CardAt(board, cell).value = v })

\* C16: a board just constructed from exactly rows * cols values holds each
\* value as often as it was supplied, and all its cards are face down with no
\* controller.
C16_Construction ==
  (last.op = "new" /\ Len(last.cards) = rows * cols) =>
    /\ \A v \in CardValues \cup {Empty} :
         CountOnBoard(v) = CountIn(last.cards, v)
    /\ \A cell \in Cells :
         /\ CardAt(board, cell).state = "face-down"
         /\ CardAt(board, cell).controlledBy = Undefined

\* a full board of three cards whose values are not in the order supplied
C16_Witness ==
  /\ last.op = "new" /\ Len(last.cards) = rows * cols
  /\ rows * cols = 3
  /\ \E cell \in Cells :
       CardAt(board, cell).value # last.cards[(cell[1] - 1) * cols + cell[2]]

\* C17: Board.map() changes no card and reports every matched or revealed
\* card, whoever holds it, with its value and its state, and every face-down
\* card with a null value and state 'face-down'.
C17_BoardMapView ==
  [][ last'.op = "boardmap" =>
        /\ board' = board
        /\ last'.status = "returned"
        /\ \A cell \in Cells :
             LET card == CardAt(board, cell)
                 seen == CardAt(last'.view, cell)
             IN  IF card.state \in {"matched", "revealed"}
                   THEN seen.value = card.value /\ seen.state = card.state
                   ELSE seen.value = Null /\ seen.state = "face-down"
  ]_vars

\* Board.map() has returned a view with a matched card and a revealed card
C17_Witness ==
  /\ last.op = "boardmap"
  /\ \E cell \in Cells : /\ CardAt(last.view, cell).state = "matched"
                         /\ CardAt(last.view, cell).value = CardAt(board, cell).value
  /\ \E cell \in Cells : /\ CardAt(last.view, cell).state = "revealed"
                         /\ CardAt(last.view, cell).value = CardAt(board, cell).value

\* C18: in every state in which a flip or a look can start, each player holds
\* at most one revealed card; and no view that look returns, to a look, a flip
\* or a map command, has two cells in state 'revealed'.
C18_OneRevealedBetweenFlips ==
  /\ Idle => \A p \in Players : Cardinality(HeldBy(p)) <= 1
  /\ (last.op \in {"look", "flip", "map"} /\ last.status = "returned") =>
       Cardinality({ cell \in Cells :
                       CardAt(last.view, cell).state = "revealed" }) <= 1

\* both players hold one card each and a look has returned a view with one
\* revealed cell
C18_Witness ==
  /\ Idle
  /\ \A p \in Players : Cardinality(HeldBy(p)) = 1
  /\ last.op = "look"
  /\ Cardinality({ cell \in Cells : CardAt(last.view, cell).state = "revealed" }) = 1

\* C19: for a card that player B holds revealed: a step of a flip of another
\* player leaves its state, controller and value as they are; the only step
\* after which it is no longer revealed by B is the resolution of a flip of B
\* that returns success = true; and as long as B holds it, a flip of it by any
\* player is rejected with "Cannot flip".
C19_PlayerIsolation ==
  [][ \A cell \in Cells :
        LET card == CardAt(board, cell)
            B    == CardAt(board, cell).controlledBy
        IN  card.state = "revealed" =>
              /\ (last'.op = "flip" /\ cur.player # B /\ cur'.player # B) =>
                   CardAt(board', cell) = card
              /\ (CardAt(board', cell).state # "revealed"
                    \/ CardAt(board', cell).controlledBy # B) =>
                   /\ cur # NoFlip /\ cur.player = B /\ cur' = NoFlip
                   /\ last'.op = "flip" /\ last'.status = "returned"
                   /\ last'.success = TRUE
              /\ (CardAt(board', cell).state = "revealed") =>
                   Rejection(board', cell[1], cell[2]) = "Cannot flip"
  ]_vars

\* a flip has resolved a mismatch and the card that the other player holds is
\* still revealed
C19_Witness ==
  /\ last.op = "flip" /\ last.status = "returned" /\ last.message = "Not a match."
  /\ \E p \in Players : Cardinality(HeldBy(p)) = 1

\* the matched cards that hold the value v
MatchedWith(v) ==
  { cell \in Cells : /\ CardAt(board, cell).state = "matched"
                     /\ CardAt(board, cell).value = v }

\* C20 (as claimed): in every reachable state, with maps between the flips,
\* the matched cards can be split into pairs of equal value: every value is
\* held by an even number of matched cards.
C20_MatchedInEqualPairs ==
  \A v \in CardValues \cup {Empty} : Cardinality(MatchedWith(v)) % 2 = 0

====
